---- MODULE Spec2Model ----
(***************************************************************************)
(* A model of the whisper JNI session controller                           *)
(* (app/src/main/jni/helium314_keyboard_voice_whisper_WhisperGGML.cpp):    *)
(* inferNative (language policy, partial-text callback, abort callback,    *)
(* post-decode filtering), cancelNative, and the engine they drive.        *)
(*                                                                         *)
(* One handle (one WhisperModelState) is modelled.  inferNative blocks in  *)
(* whisper_full, so it is split at the points where another thread or the  *)
(* engine can act: InferStart (lines 70-292), the engine's steps during    *)
(* whisper_full (callbacks, abort polls, segments, language detection),    *)
(* EngineReturn (line 294) and InferFinish (lines 301-381).  cancelNative  *)
(* may run between any two of them.                                        *)
(***************************************************************************)
EXTENDS Integers, Sequences, FiniteSets, TLC

(***************************************************************************)
(* Bounds of the model.                                                    *)
(***************************************************************************)
\* the most final segments the engine produces in one decode
MaxSegments == 3
\* the longest preferred-language array given to inferNative
MaxPreferred == 4
\* the largest processor count reported, besides the far value 1000
MaxProcs == 18

(***************************************************************************)
(* The engine's vocabulary (whisper.h is not part of the given source).    *)
(***************************************************************************)
\* a null pointer (const char *), as whisper_lang_str returns for an unknown id
NULL == "<nullptr>"

\* short codes of the languages the engine knows; the id of a code is its position - 1
LangCodes == <<"en", "zh">>

LangIds == 0 .. (Len(LangCodes) - 1)

\* strings a caller may pass as a language; "xx" is not in the engine's vocabulary
LangStrings == {"en", "zh", "xx"}

whisper_lang_id(str) ==
    IF \E i \in 1..Len(LangCodes) : LangCodes[i] = str
    THEN (CHOOSE i \in 1..Len(LangCodes) : LangCodes[i] = str) - 1
    ELSE -1

whisper_lang_str(id) ==
    IF id \in LangIds THEN LangCodes[id + 1] ELSE NULL

\* special tokens of the multilingual vocabulary
whisper_token_eot == 50257
whisper_token_sot == 50258
whisper_token_translate == 50358
whisper_token_transcribe == 50359
whisper_token_solm == 50360
whisper_token_prev == 50361
whisper_token_nosp == 50362
whisper_token_not == 50363
whisper_token_beg == 50364

\* width of the timestamp token range that starts at whisper_token_beg
TimestampSpan == 1500

\* text of a token (only text tokens and the tokens used below are given one)
whisper_token_to_str(id) ==
    CASE id = 1 -> "hello"
      [] id = 2 -> " world"
      [] id = 3 -> " there"
      [] id = whisper_token_eot -> "[_EOT_]"
      [] id = whisper_token_sot -> "[_SOT_]"
      [] id = whisper_token_beg -> "[_BEG_]"
      [] OTHER -> "[_TT_]"

(***************************************************************************)
(* Pure helpers of inferNative.                                            *)
(***************************************************************************)
\* std::find(v.begin(), v.end(), x) != v.end()
Contains(v, x) == \E i \in 1..Len(v) : v[i] = x

\* lines 77-84 and 90-97: each string of the array to whisper_lang_id, in order
ParseLanguages(strs) == [i \in 1..Len(strs) |-> whisper_lang_id(strs[i])]

\* A faulty variant of SaneThreads: a count out of range goes to the nearer end.
SaneThreads_Clamps(num_procs) ==
    IF num_procs < 2 THEN 2 ELSE IF num_procs > 16 THEN 16 ELSE num_procs

\* line 105
SaneThreads(num_procs) ==
    IF num_procs < 2 \/ num_procs > 16 THEN 6 ELSE num_procs

\* A faulty variant of LanguagePolicy: the doubled language alone keeps the
\* vector's own size (2) instead of the forced size 1.
LanguagePolicy_KeepsBoth(allowed_languages) ==
    LET n == Len(allowed_languages)
    IN  IF n = 0 THEN [language |-> NULL, allowed_langs |-> <<>>]
        ELSE IF n > 2 /\ allowed_languages[1] = allowed_languages[2] THEN
            [language |-> whisper_lang_str(allowed_languages[1]),
             allowed_langs |-> SubSeq(allowed_languages, 2, n)]
        ELSE
            [language |-> whisper_lang_str(allowed_languages[1]),
             allowed_langs |-> SubSeq(allowed_languages, 1, n)]

\* A faulty variant of LanguagePolicy: with a doubled head and more languages
\* the allowed list does not skip the duplicate.
LanguagePolicy_KeepsDuplicate(allowed_languages) ==
    LET n == Len(allowed_languages)
    IN  IF n = 0 THEN [language |-> NULL, allowed_langs |-> <<>>]
        ELSE IF n = 2 /\ allowed_languages[1] = allowed_languages[2] THEN
            [language |-> whisper_lang_str(allowed_languages[1]),
             allowed_langs |-> SubSeq(allowed_languages, 1, 1)]
        ELSE
            [language |-> whisper_lang_str(allowed_languages[1]),
             allowed_langs |-> SubSeq(allowed_languages, 1, n)]

\* A faulty variant of LanguagePolicy: with a doubled head and more languages
\* the allowed list skips both elements of the head.
LanguagePolicy_DropsBothHeads(allowed_languages) ==
    LET n == Len(allowed_languages)
    IN  IF n = 0 THEN [language |-> NULL, allowed_langs |-> <<>>]
        ELSE IF n = 2 /\ allowed_languages[1] = allowed_languages[2] THEN
            [language |-> whisper_lang_str(allowed_languages[1]),
             allowed_langs |-> SubSeq(allowed_languages, 1, 1)]
        ELSE IF n > 2 /\ allowed_languages[1] = allowed_languages[2] THEN
            [language |-> whisper_lang_str(allowed_languages[1]),
             allowed_langs |-> SubSeq(allowed_languages, 3, n)]
        ELSE
            [language |-> whisper_lang_str(allowed_languages[1]),
             allowed_langs |-> SubSeq(allowed_languages, 1, n)]

\* A faulty variant of LanguagePolicy: several distinct languages set no language.
LanguagePolicy_NoHintForDistinct(allowed_languages) ==
    LET n == Len(allowed_languages)
        has_duplicate == n >= 2 /\ allowed_languages[1] = allowed_languages[2]
    IN  IF n = 0 THEN [language |-> NULL, allowed_langs |-> <<>>]
        ELSE IF n = 1 \/ (n = 2 /\ has_duplicate) THEN
            [language |-> whisper_lang_str(allowed_languages[1]),
             allowed_langs |-> SubSeq(allowed_languages, 1, 1)]
        ELSE IF has_duplicate THEN
            [language |-> whisper_lang_str(allowed_languages[1]),
             allowed_langs |-> SubSeq(allowed_languages, 2, n)]
        ELSE
            [language |-> NULL,
             allowed_langs |-> SubSeq(allowed_languages, 1, n)]

\* lines 135-195: language, allowed_langs (the pointer and size, as the slice
\* of allowed_languages they denote) as left in wparams
LanguagePolicy(allowed_languages) ==
    LET n == Len(allowed_languages)
        has_duplicate == n >= 2 /\ allowed_languages[1] = allowed_languages[2]
    IN  IF n = 0 THEN
            [language |-> NULL, allowed_langs |-> <<>>]
        ELSE IF n = 1 THEN
            [language |-> whisper_lang_str(allowed_languages[1]),
             allowed_langs |-> SubSeq(allowed_languages, 1, n)]
        ELSE IF n = 2 /\ has_duplicate THEN
            [language |-> whisper_lang_str(allowed_languages[1]),
             allowed_langs |-> SubSeq(allowed_languages, 1, 1)]
        ELSE IF n > 2 /\ has_duplicate THEN
            [language |-> whisper_lang_str(allowed_languages[1]),
             allowed_langs |-> SubSeq(allowed_languages, 2, n)]
        ELSE
            [language |-> whisper_lang_str(allowed_languages[1]),
             allowed_langs |-> SubSeq(allowed_languages, 1, n)]

\* lines 222-236: whether the partial callback skips a token
Skipping(id) ==
    \/ id \in {whisper_token_beg, whisper_token_eot, whisper_token_nosp,
               whisper_token_not, whisper_token_prev, whisper_token_solm,
               whisper_token_sot, whisper_token_transcribe, whisper_token_translate}
    \/ (id >= whisper_token_beg /\ id <= whisper_token_beg + TimestampSpan)

\* lines 217-242: the text of the tokens that are not skipped
RECURSIVE PartialText(_)
PartialText(tokens) ==
    IF tokens = <<>> THEN ""
    ELSE (IF Skipping(Head(tokens)) THEN "" ELSE whisper_token_to_str(Head(tokens)))
         \o PartialText(Tail(tokens))

\* A faulty variant of StoreSegment: the text is appended to what the index holds.
StoreSegment_Appends(results, n, partial) ==
    [i \in (DOMAIN results) \cup {n} |->
        IF i = n THEN (IF n \in DOMAIN results THEN results[n] ELSE "") \o partial
        ELSE results[i]]

\* A faulty variant of StoreSegment: from the second segment on, the text is
\* stored one index too low.
StoreSegment_OffByOne(results, n, partial) ==
    LET m == IF n > 0 THEN n - 1 ELSE n
    IN  [i \in (DOMAIN results) \cup {m} |-> IF i = m THEN partial ELSE results[i]]

\* line 245: partial_results[n] = partial (std::map: insert or overwrite)
StoreSegment(results, n, partial) ==
    [i \in (DOMAIN results) \cup {n} |-> IF i = n THEN partial ELSE results[i]]

\* lines 248-252: the stored texts of the indices below n, in index order
RECURSIVE PreviousPartials(_, _)
PreviousPartials(results, n) ==
    IF n = 0 THEN ""
    ELSE PreviousPartials(results, n - 1)
         \o (IF (n - 1) \in DOMAIN results THEN results[n - 1] ELSE "")

\* lines 248-254
FinalPartial(results, n, partial) == PreviousPartials(results, n) \o partial

\* A faulty variant of AppendSegments: every segment " you" is left out.
RECURSIVE AppendSegments_DropsEveryYou(_, _)
AppendSegments_DropsEveryYou(segs, i) ==
    IF i > Len(segs) THEN ""
    ELSE (IF segs[i] = " you" THEN "" ELSE segs[i])
         \o AppendSegments_DropsEveryYou(segs, i + 1)

\* lines 354-364: the segments appended in order, a last segment " you" left out
RECURSIVE AppendSegments(_, _)
AppendSegments(segs, i) ==
    IF i > Len(segs) THEN ""
    ELSE (IF segs[i] = " you" /\ i = Len(segs) THEN "" ELSE segs[i])
         \o AppendSegments(segs, i + 1)

\* A faulty variant of ForbiddenVeto: the sentinel is appended to the output.
ForbiddenVeto_Appends(output, forbidden, detected_lang_id) ==
    IF Contains(forbidden, detected_lang_id)
    THEN output \o "<>CANCELLED<> lang=" \o whisper_lang_str(detected_lang_id)
    ELSE output

\* lines 366-371
ForbiddenVeto(output, forbidden, detected_lang_id) ==
    IF Contains(forbidden, detected_lang_id)
    THEN "<>CANCELLED<> lang=" \o whisper_lang_str(detected_lang_id)
    ELSE output

\* lines 373-376
CancelOverride(output, flag) ==
    IF flag # 0 THEN "<>CANCELLED<> flag" ELSE output

\* A faulty variant of FinalOutput: the veto is applied after the cancel flag.
FinalOutput_VetoLast(segs, forbidden, detected_lang_id, flag, code) ==
    LET output == IF flag # 0 THEN "<>CANCELLED<> flag" ELSE AppendSegments(segs, 1)
    IN  IF Contains(forbidden, detected_lang_id)
        THEN "<>CANCELLED<> lang=" \o whisper_lang_str(detected_lang_id)
        ELSE output

\* A faulty variant of FinalOutput: a failed decode gives an empty transcript.
FinalOutput_FailureEmpties(segs, forbidden, detected_lang_id, flag, code) ==
    LET output == IF code # 0 THEN "" ELSE AppendSegments(segs, 1)
    IN  IF flag # 0 THEN "<>CANCELLED<> flag"
        ELSE IF Contains(forbidden, detected_lang_id)
        THEN "<>CANCELLED<> lang=" \o whisper_lang_str(detected_lang_id)
        ELSE output

\* lines 354-376: the string inferNative returns (the code of whisper_full,
\* logged at lines 295-298, is not read)
\* A faulty variant of FinalOutput: the forbidden-language veto is missing.
FinalOutput_NoVeto(segs, forbidden, detected_lang_id, flag, code) ==
    CancelOverride(AppendSegments(segs, 1), flag)

FinalOutput(segs, forbidden, detected_lang_id, flag, code) ==
    CancelOverride(ForbiddenVeto(AppendSegments(segs, 1), forbidden, detected_lang_id), flag)

\* lines 279-290: the abort callback's answer
\* A faulty variant of AbortAnswer: the forbidden languages are not looked at.
AbortAnswer_FlagOnly(forbidden, current_lang_id, flag) == flag # 0

\* A faulty variant of AbortAnswer: the cancel flag is not looked at.
AbortAnswer_IgnoresFlag(forbidden, current_lang_id, flag) ==
    Contains(forbidden, current_lang_id)

\* lines 278-290
AbortAnswer(forbidden, current_lang_id, flag) ==
    IF Contains(forbidden, current_lang_id) THEN TRUE
    ELSE IF flag # 0 THEN TRUE
    ELSE FALSE

(***************************************************************************)
(* State.                                                                  *)
(***************************************************************************)
VARIABLES
    pc,                        \* where inferNative is: "idle", "decoding" (inside whisper_full), "returned" (whisper_full is back)
    cancel_flag,               \* WhisperModelState::cancel_flag
    last_forbidden_languages,  \* WhisperModelState::last_forbidden_languages
    partial_results,           \* WhisperModelState::partial_results (a function on the keys present)
    partial_result_method,     \* WhisperModelState::partial_result_method: "null" or "set"
    exception_pending,         \* the JNIEnv's pending Java exception
    allowed_languages,         \* inferNative's local vector
    forbidden_languages,       \* inferNative's local vector
    wparams,                   \* inferNative's whisper_full_params (language, allowed_langs, n_threads)
    res,                       \* inferNative's local: the code whisper_full returned (kept after the return as a record)
    online_procs,              \* inferNative's local: what sysconf(_SC_NPROCESSORS_ONLN) reported (line 104)
    lang_id,                   \* engine context: whisper_full_lang_id
    segments,                  \* engine context: the final segments' texts
    aborted,                   \* engine: an abort callback has answered true in this decode
    preview,                   \* final_partial of the last partial callback of this call
    previews,                  \* how the last partial callback ended: "none", "sent", "failed", "unsent"
    returned,                  \* inferNative has returned since it was last entered
    result,                    \* the string it returned
    thrown,                    \* it returned with a Java exception pending
    cancelled_in_call,         \* history: cancelNative ran between this call's reset and whisper_full's return
    cancel_called,             \* history: cancelNative ran since the flag was last reset (or since openNative)
    cancelled_before_check,    \* history: cancelNative ran between this call's reset and its check of the flag (line 373)
    cancel_erased,             \* history: the flag was set when this call's reset cleared it
    notify_failed,             \* history: a partial notification of this call threw
    session_results,           \* history: the texts this call's own callbacks stored, by index
    stored_text,               \* history: the text most recently stored for each index on this handle
    highest_index              \* history: the highest segment index this call's callbacks have seen, -1 if none

vars == <<pc, cancel_flag, last_forbidden_languages, partial_results,
          partial_result_method, exception_pending, allowed_languages,
          forbidden_languages, wparams, res, online_procs, lang_id, segments,
          aborted, preview, previews, returned, result, thrown, cancelled_in_call,
          cancel_called, cancelled_before_check, cancel_erased,
          notify_failed, session_results, stored_text, highest_index>>

handle_vars == <<cancel_flag, last_forbidden_languages, partial_results,
                 partial_result_method, exception_pending>>
local_vars == <<allowed_languages, forbidden_languages, wparams, res, online_procs>>
cancel_history == <<cancelled_in_call, cancel_called, cancelled_before_check, cancel_erased>>
engine_vars == <<lang_id, segments, aborted>>
preview_vars == <<preview, previews, session_results, stored_text, highest_index>>
return_vars == <<returned, result, thrown>>

\* the empty std::map
EmptyMap == <<>>

\* wparams before inferNative fills it in
NoParams == [language |-> NULL, allowed_langs |-> <<>>, n_threads |-> 0]

(***************************************************************************)
(* Inputs.                                                                 *)
(***************************************************************************)
\* all sequences over S of length at most n
RECURSIVE SeqsUpTo(_, _)
SeqsUpTo(S, n) ==
    IF n = 0 THEN {<<>>}
    ELSE LET shorter == SeqsUpTo(S, n - 1)
         IN  shorter \cup {Append(s, x) : s \in {t \in shorter : Len(t) = n - 1}, x \in S}

\* the inputs of the session specification
SessionInputs ==
    [languages |-> {<<"zh", "zh", "en">>},
     bail_languages |-> {<<>>, <<"xx", "zh">>},
     num_procs |-> {4},
     tokens |-> {<<whisper_token_sot, 1, whisper_token_eot>>},
     segment_texts |-> {" you", "great"},
     codes |-> {0, 1}]

(***************************************************************************)
(* The state after openNative.                                             *)
(***************************************************************************)
Init ==
    /\ pc = "idle"
    /\ cancel_flag = 0
    /\ last_forbidden_languages = <<>>
    /\ partial_results = EmptyMap
    /\ partial_result_method = "null"
    /\ exception_pending = FALSE
    /\ allowed_languages = <<>>
    /\ forbidden_languages = <<>>
    /\ wparams = NoParams
    /\ res = 0
    /\ online_procs = 0
    /\ lang_id \in LangIds
    /\ segments = <<>>
    /\ aborted = FALSE
    /\ preview = ""
    /\ previews = "none"
    /\ returned = FALSE
    /\ result = ""
    /\ thrown = FALSE
    /\ cancelled_in_call = FALSE
    /\ cancel_called = FALSE
    /\ cancelled_before_check = FALSE
    /\ cancel_erased = FALSE
    /\ notify_failed = FALSE
    /\ session_results = EmptyMap
    /\ stored_text = EmptyMap
    /\ highest_index = -1

(***************************************************************************)
(* inferNative, lines 70-292: reset of the flag, the language arrays, the  *)
(* policy, the callbacks; then whisper_full is entered (line 294), which   *)
(* starts with no segments.                                                *)
(***************************************************************************)
\* lines 203-206: the instance is a WhisperGGML, which has invokePartialResult
LookupPartialResultMethod == "set"

\* A faulty variant of ResetFlag: the flag is left as it is.
ResetFlag_Keeps(flag) == flag

\* line 71: state->cancel_flag = 0
ResetFlag(flag) == 0

InferStart(in) ==
    /\ pc = "idle"
    /\ \E languages \in in.languages, bail_languages \in in.bail_languages,
          num_procs \in in.num_procs :
        LET allowed == ParseLanguages(languages)
            forbidden == ParseLanguages(bail_languages)
            policy == LanguagePolicy(allowed)
        IN  /\ allowed_languages' = allowed
            /\ forbidden_languages' = forbidden
            /\ last_forbidden_languages' = forbidden
            /\ wparams' = [language |-> policy.language,
                           allowed_langs |-> policy.allowed_langs,
                           n_threads |-> SaneThreads(num_procs)]
            /\ online_procs' = num_procs
    /\ cancel_flag' = ResetFlag(cancel_flag)
    /\ partial_result_method' = LookupPartialResultMethod
    /\ pc' = "decoding"
    /\ res' = 0
    /\ segments' = <<>>
    /\ aborted' = FALSE
    /\ preview' = ""
    /\ previews' = "none"
    /\ returned' = FALSE
    /\ result' = ""
    /\ thrown' = FALSE
    /\ cancelled_in_call' = FALSE
    /\ cancel_called' = FALSE
    /\ cancelled_before_check' = FALSE
    /\ cancel_erased' = (cancel_flag # 0)
    /\ notify_failed' = FALSE
    /\ session_results' = EmptyMap
    /\ highest_index' = -1
    /\ UNCHANGED <<partial_results, exception_pending, lang_id, stored_text>>

(***************************************************************************)
(* The partial-text callback, lines 215-273, called by the engine with the *)
(* tokens of the segment in progress; its index is the number of segments  *)
(* finished so far.  invokePartialResult may throw.                        *)
(***************************************************************************)
\* A faulty variant of AfterExceptionCheck: the exception is not cleared.
AfterExceptionCheck_NoClear(pending) == pending

\* lines 263-267: the pending exception after ExceptionCheck / ExceptionClear
AfterExceptionCheck(pending) == FALSE

PartialCallback(in) ==
    /\ pc = "decoding"
    /\ ~aborted
    /\ \E tokens \in in.tokens, throws \in BOOLEAN :
        LET partial == PartialText(tokens)
            n == Len(segments)
            stored == StoreSegment(partial_results, n, partial)
        IN  /\ partial_results' = stored
            /\ preview' = FinalPartial(stored, n, partial)
            /\ IF partial_result_method # "null"
               THEN /\ previews' = IF throws THEN "failed" ELSE "sent"
                    /\ exception_pending' = AfterExceptionCheck(exception_pending \/ throws)
                    /\ notify_failed' = (notify_failed \/ throws)
               ELSE /\ previews' = "unsent"
                    /\ UNCHANGED <<exception_pending, notify_failed>>
            /\ session_results' = [i \in (DOMAIN session_results) \cup {n} |->
                                      IF i = n THEN partial ELSE session_results[i]]
            /\ stored_text' = [i \in (DOMAIN stored_text) \cup {n} |->
                                  IF i = n THEN partial ELSE stored_text[i]]
            /\ highest_index' = IF n > highest_index THEN n ELSE highest_index
    /\ UNCHANGED <<pc, cancel_flag, last_forbidden_languages, partial_result_method>>
    /\ UNCHANGED <<local_vars, engine_vars, return_vars, cancel_history>>

(***************************************************************************)
(* A faulty variant of AbortPoll: a flag that has been seen is consumed.   *)
(***************************************************************************)
AbortPoll_ConsumesFlag ==
    /\ pc = "decoding"
    /\ ~aborted
    /\ aborted' = AbortAnswer(last_forbidden_languages, lang_id, cancel_flag)
    /\ cancel_flag' = 0
    /\ UNCHANGED <<pc, last_forbidden_languages, partial_results,
                   partial_result_method, exception_pending>>
    /\ UNCHANGED <<local_vars, lang_id, segments>>
    /\ UNCHANGED <<preview_vars, return_vars, cancel_history, notify_failed>>

(***************************************************************************)
(* The abort callback, lines 276-291, polled by the engine.                *)
(***************************************************************************)
\* A faulty variant of AbortPoll: answering true for a forbidden language
\* also sets the cancel flag.
AbortPoll_SetsFlagOnLanguage ==
    /\ pc = "decoding"
    /\ ~aborted
    /\ aborted' = AbortAnswer(last_forbidden_languages, lang_id, cancel_flag)
    /\ cancel_flag' = IF Contains(last_forbidden_languages, lang_id) THEN 1 ELSE cancel_flag
    /\ UNCHANGED <<pc, last_forbidden_languages, partial_results,
                   partial_result_method, exception_pending>>
    /\ UNCHANGED <<local_vars, lang_id, segments>>
    /\ UNCHANGED <<preview_vars, return_vars, cancel_history, notify_failed>>

AbortPoll ==
    /\ pc = "decoding"
    /\ ~aborted
    /\ aborted' = AbortAnswer(last_forbidden_languages, lang_id, cancel_flag)
    /\ UNCHANGED <<pc, handle_vars, local_vars, lang_id, segments>>
    /\ UNCHANGED <<preview_vars, return_vars, cancel_history, notify_failed>>

(***************************************************************************)
(* The engine inside whisper_full: it settles on a language, finishes      *)
(* segments, and returns with a result code.  Once an abort callback has   *)
(* answered true it only returns.                                          *)
(***************************************************************************)
EngineDetectLanguage ==
    /\ pc = "decoding"
    /\ ~aborted
    /\ \E id \in LangIds : id # lang_id /\ lang_id' = id
    /\ UNCHANGED <<pc, handle_vars, local_vars, segments, aborted>>
    /\ UNCHANGED <<preview_vars, return_vars, cancel_history, notify_failed>>

EngineFinishSegment(in) ==
    /\ pc = "decoding"
    /\ ~aborted
    /\ Len(segments) < MaxSegments
    /\ \E text \in in.segment_texts : segments' = Append(segments, text)
    /\ UNCHANGED <<pc, handle_vars, local_vars, lang_id, aborted>>
    /\ UNCHANGED <<preview_vars, return_vars, cancel_history, notify_failed>>

\* line 294: whisper_full returns
EngineReturn(in) ==
    /\ pc = "decoding"
    /\ \E code \in in.codes : res' = code
    /\ pc' = "returned"
    /\ UNCHANGED <<handle_vars, allowed_languages, forbidden_languages, wparams, online_procs>>
    /\ UNCHANGED <<engine_vars, preview_vars, return_vars, cancel_history, notify_failed>>

(***************************************************************************)
(* inferNative, lines 301-381: the detected language, the output, the veto,*)
(* the cancel flag, the return (the locals go out of scope).               *)
(***************************************************************************)
InferFinish ==
    /\ pc = "returned"
    /\ result' = FinalOutput(segments, forbidden_languages, lang_id, cancel_flag, res)
    /\ thrown' = exception_pending
    /\ returned' = TRUE
    /\ pc' = "idle"
    /\ allowed_languages' = <<>>
    /\ forbidden_languages' = <<>>
    /\ wparams' = NoParams
    /\ online_procs' = 0
    /\ UNCHANGED <<res, handle_vars, engine_vars, preview_vars, cancel_history, notify_failed>>

(***************************************************************************)
(* cancelNative, lines 384-388, from any thread at any time.               *)
(***************************************************************************)
CancelNative ==
    /\ cancel_flag' = 1
    /\ cancelled_in_call' = (cancelled_in_call \/ pc = "decoding")
    /\ cancel_called' = TRUE
    /\ cancelled_before_check' = (cancelled_before_check \/ pc # "idle")
    /\ UNCHANGED cancel_erased
    /\ UNCHANGED <<pc, last_forbidden_languages, partial_results,
                   partial_result_method, exception_pending>>
    /\ UNCHANGED <<local_vars, engine_vars, preview_vars, return_vars, notify_failed>>

(***************************************************************************)
(* The session specification.                                              *)
(***************************************************************************)
Next ==
    \/ InferStart(SessionInputs)
    \/ PartialCallback(SessionInputs)
    \/ AbortPoll
    \/ EngineDetectLanguage
    \/ EngineFinishSegment(SessionInputs)
    \/ EngineReturn(SessionInputs)
    \/ InferFinish
    \/ CancelNative

Spec == Init /\ [][Next]_vars

(***************************************************************************)
(* The partial-transcript specification: sessions on one handle with a     *)
(* richer set of token sequences, without cancellation.                    *)
(***************************************************************************)
PartialInputs ==
    [languages |-> {<<"en">>},
     bail_languages |-> {<<>>},
     num_procs |-> {4},
     tokens |-> {<<whisper_token_sot, 1>>,
                 <<1, 2, whisper_token_eot>>,
                 <<whisper_token_beg + 7, 3>>},
     segment_texts |-> {"a"},
     codes |-> {0}]

NextPartial ==
    \/ InferStart(PartialInputs)
    \/ PartialCallback(PartialInputs)
    \/ EngineFinishSegment(PartialInputs)
    \/ EngineReturn(PartialInputs)
    \/ InferFinish

SpecPartial == Init /\ [][NextPartial]_vars

(***************************************************************************)
(* The cancellation specification under fairness: the engine keeps polling *)
(* the abort callback, returns once a poll has answered true, and          *)
(* inferNative runs on to its return after whisper_full.                   *)
(***************************************************************************)
LiveInputs ==
    [languages |-> {<<"en">>},
     bail_languages |-> {<<>>, <<"zh">>},
     num_procs |-> {4},
     tokens |-> {<<1>>},
     segment_texts |-> {"great"},
     codes |-> {0}]

NextLive ==
    \/ InferStart(LiveInputs)
    \/ AbortPoll
    \/ EngineDetectLanguage
    \/ EngineFinishSegment(LiveInputs)
    \/ EngineReturn(LiveInputs)
    \/ InferFinish
    \/ CancelNative

SpecLive ==
    /\ Init
    /\ [][NextLive]_vars
    /\ WF_vars(AbortPoll)
    /\ WF_vars(aborted /\ EngineReturn(LiveInputs))
    /\ WF_vars(InferFinish)

(***************************************************************************)
(* The policy specification: inferNative entered with every array of at    *)
(* most MaxPreferred language strings.                                     *)
(***************************************************************************)
PolicyInputs ==
    [languages |-> SeqsUpTo(LangStrings, MaxPreferred),
     bail_languages |-> {<<>>},
     num_procs |-> (-1 .. MaxProcs) \cup {1000},
     tokens |-> {<<1>>},
     segment_texts |-> {"a"},
     codes |-> {0}]

NextPolicy ==
    \/ InferStart(PolicyInputs)
    \/ EngineReturn(PolicyInputs)
    \/ InferFinish

SpecPolicy == Init /\ [][NextPolicy]_vars

(***************************************************************************)
(* What the specification says of the outcome, written independently of    *)
(* the code's operators above.                                             *)
(***************************************************************************)
RECURSIVE Concat(_)
Concat(texts) == IF texts = <<>> THEN "" ELSE Head(texts) \o Concat(Tail(texts))

\* all final segments in order, the last one omitted iff it is exactly " you"
TrimmedTranscript(segs) ==
    IF Len(segs) > 0 /\ segs[Len(segs)] = " you"
    THEN Concat(SubSeq(segs, 1, Len(segs) - 1))
    ELSE Concat(segs)

IsForbidden(forbidden, id) == id \in {forbidden[i] : i \in 1..Len(forbidden)}

UserCancelled == "<>CANCELLED<> flag"

LanguageCancelled(id) == "<>CANCELLED<> lang=" \o LangCodes[id + 1]

\* the outcome when the gate is not set: the veto, else the trimmed transcript
VetoOrText(segs, forbidden, id) ==
    IF IsForbidden(forbidden, id) THEN LanguageCancelled(id) ELSE TrimmedTranscript(segs)

(***************************************************************************)
(* C1.  If cancelNative sets the flag during an inferNative call, after    *)
(* that call's reset of the flag and before whisper_full returns, the      *)
(* string the call returns is exactly "<>CANCELLED<> flag", whatever the   *)
(* detected language (forbidden or not) and the final segments are.        *)
(***************************************************************************)
C1_CancelDuringCallWins ==
    (returned /\ cancelled_in_call) => (result = UserCancelled /\ ~thrown)

\* a call cancelled mid-decode whose detected language is forbidden and whose
\* segments hold real text has returned
C1_Witness ==
    /\ returned
    /\ cancelled_in_call
    /\ IsForbidden(last_forbidden_languages, lang_id)
    /\ TrimmedTranscript(segments) = "great"
    /\ result = UserCancelled

(***************************************************************************)
(* C2.  When whisper_full has returned with a detected language that is in *)
(* this call's forbidden list and the flag is not set, inferNative returns *)
(* exactly "<>CANCELLED<> lang=<code>", <code> being the detected          *)
(* language's short code, whatever the final segments are.                 *)
(***************************************************************************)
C2_ForbiddenVeto ==
    (returned /\ cancel_flag = 0 /\ IsForbidden(last_forbidden_languages, lang_id))
        => result = LanguageCancelled(lang_id)

\* a vetoed call whose segments would have given a non-empty transcript
C2_Witness ==
    /\ returned
    /\ cancel_flag = 0
    /\ lang_id = 1
    /\ IsForbidden(last_forbidden_languages, lang_id)
    /\ segments = <<"great", " you">>
    /\ result = "<>CANCELLED<> lang=zh"

(***************************************************************************)
(* C5.  Once the flag is set it stays set until a new inferNative call     *)
(* starts: the only step that takes it from set to clear is the reset at   *)
(* the entry of inferNative (not the abort callback, the partial callback, *)
(* the post-decode filtering or the return).                               *)
(***************************************************************************)
C5_FlagClearedOnlyAtStart ==
    [][(cancel_flag # 0 /\ cancel_flag' = 0) => (pc = "idle" /\ pc' = "decoding")]_vars

\* the flag is still set after the abort callback saw it, whisper_full
\* returned, a partial was produced and inferNative returned
C5_Witness ==
    /\ returned
    /\ cancel_flag # 0
    /\ aborted
    /\ previews # "none"
    /\ result = UserCancelled

(***************************************************************************)
(* C6.  With no veto and no cancellation the returned transcript is the    *)
(* in-order concatenation of all final segment texts, the last segment     *)
(* being omitted if and only if its text is exactly " you"; a " you" that  *)
(* is not last is kept.                                                    *)
(***************************************************************************)
C6_TrailingYouTrim ==
    (returned /\ cancel_flag = 0 /\ ~IsForbidden(last_forbidden_languages, lang_id))
        => result = TrimmedTranscript(segments)

\* ["great", " you", " you"] has been returned as "great you"
C6_Witness ==
    /\ returned
    /\ cancel_flag = 0
    /\ ~IsForbidden(last_forbidden_languages, lang_id)
    /\ segments = <<"great", " you", " you">>
    /\ result = "great you"

(***************************************************************************)
(* C7.  A non-zero code from whisper_full gives no error outcome and does  *)
(* not by itself empty the result: whatever the code, inferNative returns  *)
(* normally, and the string is the user-cancelled sentinel (the flag being *)
(* set) or else the veto sentinel or the trimmed transcript, as for code 0.*)
(***************************************************************************)
C7_ResultCodeIgnored ==
    returned =>
        /\ ~thrown
        /\ \/ (result = UserCancelled /\ cancel_flag # 0)
           \/ result = VetoOrText(segments, last_forbidden_languages, lang_id)

\* a failed decode (non-zero code) has returned the text of its segments
C7_Witness ==
    /\ returned
    /\ res # 0
    /\ ~aborted
    /\ cancel_flag = 0
    /\ segments = <<"great", "great">>
    /\ result = "greatgreat"

(***************************************************************************)
(* C3.  Every inferNative call starts by resetting the flag and            *)
(* PartialState, so that over any sequence of calls on one handle every    *)
(* preview is built only from the texts that call's own callbacks stored:  *)
(* an index the current call has not populated contributes nothing, even   *)
(* if an earlier call populated it.                                        *)
(***************************************************************************)
\* the texts of m for the indices 0..hi in order, an absent index giving nothing
TextsUpTo(m, hi) ==
    Concat([i \in 1..(hi + 1) |-> IF (i - 1) \in DOMAIN m THEN m[i - 1] ELSE ""])

C3_PreviewFromOwnSession ==
    (previews # "none") => (preview = TextsUpTo(session_results, highest_index))

CallbackStep ==
    /\ pc = "decoding"
    /\ pc' = "decoding"
    /\ <<partial_results, preview, previews, notify_failed>>'
           # <<partial_results, preview, previews, notify_failed>>

AbortCondition(forbidden, id, flag) == IsForbidden(forbidden, id) \/ flag # 0

C8_NotifyFailureContained ==
    [][/\ ~exception_pending'
       /\ ~thrown'
       /\ (CallbackStep /\ previews' = "failed") =>
             /\ cancel_flag' = cancel_flag
             /\ aborted' = aborted
             /\ AbortCondition(last_forbidden_languages', lang_id', cancel_flag')
                    = AbortCondition(last_forbidden_languages, lang_id, cancel_flag)
       /\ (notify_failed /\ pc = "decoding" /\ ~aborted) =>
             ENABLED PartialCallback(SessionInputs)
       /\ (returned' /\ notify_failed') =>
             \/ (result' = UserCancelled /\ cancel_flag' # 0)
             \/ result' = VetoOrText(segments', last_forbidden_languages', lang_id')
      ]_vars

\* after a notification threw, a later callback for a higher index was
\* delivered, the abort callback was not triggered, and the text was returned
C8_Witness ==
    /\ returned
    /\ notify_failed
    /\ previews = "sent"
    /\ highest_index = 1
    /\ ~aborted
    /\ cancel_flag = 0
    /\ result = "great"

(***************************************************************************)
(* C9.  For every language L of the engine, the array [L] resolves to      *)
(* language L, allowed list [L] and no auto-detection, and [L, L] resolves *)
(* to exactly the same (the allowed list given to the engine has length 1).*)
(***************************************************************************)
\* the engine detects the language itself iff it is given no language
AutoDetect(params) == params.language = NULL

C9_SingleAndDoubled ==
    \A L \in LangIds :
        (pc = "decoding" /\ allowed_languages \in {<<L>>, <<L, L>>}) =>
            /\ wparams.language = LangCodes[L + 1]
            /\ wparams.allowed_langs = <<L>>
            /\ ~AutoDetect(wparams)

C9_Witness ==
    /\ pc = "decoding"
    /\ allowed_languages = <<1, 1>>
    /\ wparams.language = "zh"
    /\ Len(wparams.allowed_langs) = 1

(***************************************************************************)
(* C10.  As claimed: for every array of more than two languages whose      *)
(* first two are equal, the policy has no language set (the duplicated     *)
(* language is never forced on the engine), auto-detection, and the        *)
(* allowed list is the array without its element at index 1.               *)
(***************************************************************************)
\* s without its k-th element (k counted from 1)
RemoveAt(s, k) == SubSeq(s, 1, k - 1) \o SubSeq(s, k + 1, Len(s))

DuplicateHeadOfMany ==
    /\ pc = "decoding"
    /\ Len(allowed_languages) > 2
    /\ allowed_languages[1] = allowed_languages[2]

DistinctHead ==
    /\ pc = "decoding"
    /\ Len(allowed_languages) >= 2
    /\ allowed_languages[1] # allowed_languages[2]

AdjacentPairs(s, from) == {i \in from .. (Len(s) - 1) : s[i] = s[i + 1]}

C12_AsClaimed ==
    (pc = "decoding") => (AdjacentPairs(wparams.allowed_langs, 1) = {})

(***************************************************************************)
(* C12, amended.  Only the duplicate at the head of the array (its first   *)
(* two elements) is removed: the allowed list has two equal adjacent       *)
(* elements exactly when the array has two equal adjacent elements beyond  *)
(* its first pair ([A,B,B] is passed unchanged, [L,L,L] is passed as       *)
(* [L,L]); an array whose only repetition is its first pair gives none.    *)
(***************************************************************************)
C12_OnlyHeadDuplicateRemoved ==
    (pc = "decoding") =>
        ((AdjacentPairs(wparams.allowed_langs, 1) # {})
            <=> (AdjacentPairs(allowed_languages, 2) # {}))

C12_Witness ==
    /\ pc = "decoding"
    /\ allowed_languages = <<0, 0, 0>>
    /\ wparams.allowed_langs = <<0, 0>>

(***************************************************************************)
(* C13.  No policy holds the engine's "unknown" language id: whatever the  *)
(* caller passes, strings the engine does not know included, every element *)
(* of the allowed list, and the language when one is set, is a language of *)
(* the engine.                                                             *)
(***************************************************************************)
C13_NoUnknownInPolicy ==
    (pc = "decoding") =>
        /\ \A i \in 1..Len(wparams.allowed_langs) : wparams.allowed_langs[i] \in LangIds
        /\ (wparams.language # NULL =>
                \E id \in LangIds : wparams.language = LangCodes[id + 1])

(***************************************************************************)
(* C14.  The thread count given to the engine is the reported number of    *)
(* processors c when 2 <= c <= 16 and 6 for every other c, so it is always *)
(* within 2..16.                                                           *)
(***************************************************************************)
C14_ThreadCount ==
    (pc = "decoding") =>
        /\ (online_procs \in 2..16 => wparams.n_threads = online_procs)
        /\ (online_procs \notin 2..16 => wparams.n_threads = 6)
        /\ wparams.n_threads \in 2..16

\* a report of 1000 processors has given 6 threads
C14_Witness ==
    /\ pc = "decoding"
    /\ online_procs = 1000
    /\ wparams.n_threads = 6

(***************************************************************************)
(* C15.  At every poll of a call the abort callback answers true exactly   *)
(* when, at that moment, the cancel flag is set or the engine's current    *)
(* language is one of this call's forbidden languages; the answer is a     *)
(* function of the current state only, and the callback writes nothing:    *)
(* the step in which the engine takes a true answer changes no variable of *)
(* the handle, of the call or of the engine's results.                     *)
(***************************************************************************)
C15_AbortAnswerIsCurrentCondition ==
    [][/\ (pc = "decoding") =>
            (AbortAnswer(last_forbidden_languages, lang_id, cancel_flag)
                <=> AbortCondition(forbidden_languages, lang_id, cancel_flag))
       /\ (pc = "decoding" /\ pc' = "decoding" /\ aborted' # aborted) =>
            /\ aborted' = AbortCondition(forbidden_languages, lang_id, cancel_flag)
            /\ UNCHANGED <<handle_vars, local_vars, lang_id, segments>>
            /\ UNCHANGED <<preview_vars, return_vars>>]_vars

\* the callback has answered true on a forbidden language, the flag not set
C15_Witness ==
    /\ pc = "decoding"
    /\ aborted
    /\ cancel_flag = 0
    /\ ~cancel_erased
    /\ IsForbidden(forbidden_languages, lang_id)
    /\ segments = <<>>

(***************************************************************************)
(* C16.  Whenever the abort callback has answered true during a call, the  *)
(* call does not return a transcript: it returns a cancellation, and the   *)
(* one naming the forbidden language when the callback answered on a       *)
(* forbidden language and cancelNative did not run during the call.        *)
(***************************************************************************)
C16_AbortedNeverReturnsText ==
    (returned /\ aborted) =>
        /\ result \in {UserCancelled, LanguageCancelled(lang_id)}
        /\ (IsForbidden(last_forbidden_languages, lang_id) /\ ~cancelled_before_check)
               => result = LanguageCancelled(lang_id)

\* an aborted call with a finished segment has returned the language's veto
C16_Witness ==
    /\ returned
    /\ aborted
    /\ ~cancelled_before_check
    /\ Len(segments) > 0
    /\ result = LanguageCancelled(lang_id)

(***************************************************************************)
(* C17.  As claimed: when the abort callback has answered true on a        *)
(* forbidden language during a call, the cancel flag is set when the call  *)
(* comes to check it (line 373).                                           *)
(***************************************************************************)
C17_AsClaimed ==
    (pc = "returned" /\ aborted /\ IsForbidden(forbidden_languages, lang_id))
        => cancel_flag # 0

(***************************************************************************)
(* C17, amended.  The cancel flag is set in exactly one way, by            *)
(* cancelNative: it is set exactly when cancelNative has run since it was  *)
(* last cleared.  When the abort callback has answered true on a forbidden *)
(* language and cancelNative has not run during the call, the flag is      *)
(* clear when the call comes to check it.                                  *)
(***************************************************************************)
C17_OnlyCancelSetsFlag ==
    /\ (cancel_flag # 0) <=> cancel_called
    /\ (pc = "returned" /\ aborted /\ ~cancelled_before_check) =>
            /\ cancel_flag = 0
            /\ IsForbidden(forbidden_languages, lang_id)

\* the callback answered true on a forbidden language; the flag is clear at the check
C17_Witness ==
    /\ pc = "returned"
    /\ aborted
    /\ IsForbidden(forbidden_languages, lang_id)
    /\ ~cancel_called
    /\ cancel_flag = 0

(***************************************************************************)
(* C20.  inferNative returns "<>CANCELLED<> flag" only if cancelNative ran *)
(* on the handle after this call cleared the flag and before this call     *)
(* checked it.  A cancelNative that ran before the clearing is erased: the *)
(* flag is clear for as long as none runs during the call, and the call    *)
(* returns what it would have returned with no cancel at all.              *)
(***************************************************************************)
C20_FlagResultNeedsCancelInCall ==
    /\ (returned /\ result = UserCancelled) => cancelled_before_check
    /\ (pc # "idle" /\ ~cancelled_before_check) => cancel_flag = 0
    /\ (returned /\ ~cancelled_before_check) =>
            result = VetoOrText(segments, last_forbidden_languages, lang_id)

\* a cancel before the call was erased by its reset, and the call returned its transcript
C20_Witness ==
    /\ returned
    /\ cancel_erased
    /\ ~cancelled_before_check
    /\ segments = <<"great">>
    /\ result = "great"

(***************************************************************************)
(* C18.  A cancelNative that runs while whisper_full is decoding is not    *)
(* lost: from then on the flag stays set for the rest of the call and      *)
(* every poll of the abort callback answers true, so, the engine polling   *)
(* again and returning once told to abort, the call eventually returns     *)
(* "<>CANCELLED<> flag".                                                   *)
(***************************************************************************)
CancelPending == pc = "decoding" /\ cancel_flag # 0

C18_CancelNeverLost ==
    /\ [](CancelPending => AbortAnswer(last_forbidden_languages, lang_id, cancel_flag))
    /\ [][(CancelPending /\ pc' # "idle") => cancel_flag' # 0]_vars
    /\ (CancelPending ~> (returned /\ result = UserCancelled))

\* a poll has seen the flag of a cancel made during the decode, no language
\* being forbidden, and the call has returned the flag's cancellation
C18_Witness ==
    /\ returned
    /\ cancelled_in_call
    /\ aborted
    /\ last_forbidden_languages = <<>>
    /\ segments = <<"great">>
    /\ result = UserCancelled

(***************************************************************************)
(* C19.  Within one call, once a callback for an index above i has taken   *)
(* place, the entry stored for index i is not written again: it keeps its  *)
(* text for the rest of the call, and so does the text that the indices    *)
(* below the highest index seen contribute to every later preview.         *)
(***************************************************************************)
C19_FinalizedEntriesKept ==
    [][(pc = "decoding" /\ pc' = "decoding") =>
          /\ \A i \in DOMAIN partial_results :
                (i < highest_index) =>
                    /\ i \in DOMAIN partial_results'
                    /\ partial_results'[i] = partial_results[i]
          /\ (highest_index >= 0) =>
                (PreviousPartials(partial_results', highest_index)
                    = PreviousPartials(partial_results, highest_index))]_vars

\* index 1 has had its callback and index 0 holds the text of its own
C19_Witness ==
    /\ pc = "decoding"
    /\ highest_index = 1
    /\ Len(segments) = 1
    /\ session_results = (0 :> "hello" @@ 1 :> "hello world")
    /\ partial_results = session_results
    /\ preview = "hellohello world"

====
